---- MODULE Spec2Model ----
(***************************************************************************)
(* Minesweeper (kosuhan/minesweeper-pwa): the game session of app.js as a  *)
(* state machine.  One action per operation the event handlers dispatch to *)
(* (reveal, toggleFlag, chord, reset/newGame) and one for the one-second   *)
(* interval callback.  Handlers run to completion, so an action is the     *)
(* whole call with the calls it makes: placeMines, the flood expansion,    *)
(* checkWin, endGame, revealAllMines, saveBestIfNeeded.  A handler whose   *)
(* guard returns early is a step that changes nothing.                     *)
(*                                                                         *)
(* Boards are scaled down: newGame is applied to the configurations of     *)
(* Params, bounded by MaxCols, MaxRows and MaxMines; the clock is cut off  *)
(* at MaxElapsed.  Math.random's shuffle is a nondeterministic choice of   *)
(* the array entries the placement loop reads.  The option checkboxes are  *)
(* inputs of the handler that reads them.  Rendering and sound             *)
(* (renderCell, beeps.play) change no game state and are left out.         *)
(*                                                                         *)
(* Specifications:                                                         *)
(*   Spec         the game session on the scaled-down boards, a press and  *)
(*                its release being one step;                              *)
(*   PointerSpec  the game on the small board with pointerdown, pointerup, *)
(*                pointerleave and the long-press timeout as steps;        *)
(*   ResetSpec    reset() at full size, applied to presets and custom      *)
(*                inputs inside and outside the ranges;                    *)
(*   StartupSpec  the script's tail (initDifficulty, reset) from every     *)
(*                content of the persisted store, then resets;             *)
(*   WorkerSpec   the fetch handler of service-worker.js, promise by       *)
(*                promise.                                                 *)
(***************************************************************************)
EXTENDS Integers, Sequences, FiniteSets, TLC

\* ------------------------------------------------------------ bounds
MaxCols == 3
MaxRows == 2
MaxMines == 2
MaxElapsed == 1

VARIABLES
  cols, rows, mines,   \* let cols, rows, mines
  board,               \* let board: cell <<x,y>> -> [mine, revealed, flagged, count]
  started, ended,      \* let started, ended
  flags,               \* let flags
  revealedCount,       \* let revealedCount
  timerId,             \* TRUE while an interval timer is registered (timerId # null)
  intervals,           \* setInterval registrations not yet cleared
  elapsed,             \* let elapsed
  best,                \* localStorage[LS.BEST] parsed: bestKey -> seconds
  store,               \* localStorage: LS.DIFF, LS.CUSTOM and the kind of LS.BEST
  difficulty,          \* $('#difficulty').value
  fields,              \* $('#w').value, $('#h').value, $('#m').value
  pc,                  \* the statement of the script's tail that runs next
  uncaught,            \* TRUE once an error has left a script or a handler uncaught
  holdTimer,           \* let holdTimer: the pending long-press timeout, if any
  outcome,             \* history: the argument of the session's endGame call
  placeCalls,          \* history: calls of placeMines in this session
  endCalls,            \* history: calls of endGame in this session
  \* service-worker.js
  cache,               \* the cache CACHE: url -> stored response
  puts,                \* cache.put calls that have neither completed nor failed
  req,                 \* event.request of the fetch event being answered
  phase,               \* the promise the fetch handler is waiting for
  responded,           \* the response the respondWith promise resolved to
  net,                 \* history: fetch(req) not called, resolved, rejected
  putCalled            \* history: cache.put was called for this request

vars == <<cols, rows, mines, board, started, ended, flags, revealedCount,
          timerId, intervals, elapsed, best,
          store, difficulty, fields, pc, uncaught, holdTimer,
          outcome, placeCalls, endCalls,
          cache, puts, req, phase, responded, net, putCalled>>

\* The state of app.js and the state of service-worker.js.
gameVars ==
  <<cols, rows, mines, board, started, ended, flags, revealedCount,
    timerId, intervals, elapsed, best,
    store, difficulty, fields, pc, uncaught, holdTimer,
    outcome, placeCalls, endCalls>>

workerVars == <<cache, puts, req, phase, responded, net, putCalled>>

\* ------------------------------------------------------------ grid
Min(a, b) == IF a < b THEN a ELSE b

\* The configurations reset() passes to newGame, scaled down: a small preset
\* and the largest board of the bounds, both with m <= w*h - 1.
Params == { <<2, 2, 1>>, <<MaxCols, MaxRows, MaxMines>> }

Cells(w, h) == (0..(w - 1)) \X (0..(h - 1))

newCell == [mine |-> FALSE, revealed |-> FALSE, flagged |-> FALSE, count |-> 0]

inBounds(x, y, w, h) == x >= 0 /\ x < w /\ y >= 0 /\ y < h

\* Mutant: the inner loop stops before dx = 1.
OffsetsShort ==
  << <<-1,-1>>, <<0,-1>>, <<-1,0>>, <<-1,1>>, <<0,1>> >>

\* <<dx,dy>> in the order of the two loops: dy outer, dx inner, (0,0) skipped.
Offsets ==
  << <<-1,-1>>, <<0,-1>>, <<1,-1>>, <<-1,0>>, <<1,0>>, <<-1,1>>, <<0,1>>, <<1,1>> >>

RECURSIVE neighborsFrom(_, _, _, _)
neighborsFrom(c, w, h, i) ==
  IF i > Len(Offsets) THEN << >>
  ELSE LET n == <<c[1] + Offsets[i][1], c[2] + Offsets[i][2]>>
           rest == neighborsFrom(c, w, h, i + 1)
       IN IF inBounds(n[1], n[2], w, h) THEN <<n>> \o rest ELSE rest

\* neighbors(x,y) for every board of Params, computed once.
neighborTable ==
  [d \in { <<p[1], p[2]>> : p \in Params } |->
     [c \in Cells(d[1], d[2]) |-> neighborsFrom(c, d[1], d[2], 1)]]

\* neighbors(x,y): the in-bounds neighbours of c, in loop order.
neighbors(c, w, h) == neighborTable[<<w, h>>][c]

Range(q) == { q[i] : i \in 1..Len(q) }

setupGrid(w, h) == [c \in Cells(w, h) |-> newCell]

\* ------------------------------------------------------------ session
\* The ambient game state as one value, so that nested calls compose.
Session ==
  [cols |-> cols, rows |-> rows, mines |-> mines, board |-> board,
   started |-> started, ended |-> ended, flags |-> flags,
   revealedCount |-> revealedCount, timerId |-> timerId,
   intervals |-> intervals, elapsed |-> elapsed,
   best |-> best, store |-> store, difficulty |-> difficulty,
   fields |-> fields, pc |-> pc, uncaught |-> uncaught, holdTimer |-> holdTimer,
   outcome |-> outcome, placeCalls |-> placeCalls, endCalls |-> endCalls]

\* The handler leaves the ambient state as s.
Becomes(s) ==
  LET r == s IN
  /\ cols' = r.cols /\ rows' = r.rows /\ mines' = r.mines
  /\ board' = r.board
  /\ started' = r.started /\ ended' = r.ended
  /\ flags' = r.flags /\ revealedCount' = r.revealedCount
  /\ timerId' = r.timerId /\ intervals' = r.intervals /\ elapsed' = r.elapsed
  /\ best' = r.best /\ store' = r.store /\ difficulty' = r.difficulty
  /\ fields' = r.fields /\ pc' = r.pc /\ uncaught' = r.uncaught
  /\ holdTimer' = r.holdTimer
  /\ outcome' = r.outcome /\ placeCalls' = r.placeCalls /\ endCalls' = r.endCalls
  /\ UNCHANGED workerVars

\* ------------------------------------------------------------ service worker
\* Requests: the root document, a core asset and two urls outside CORE_ASSETS.
RootDocument == "./index.html"

CORE_ASSETS == {RootDocument, "./app.js"}

Urls == CORE_ASSETS \cup {"./a", "./b"}

Requests == [url : Urls, method : {"GET", "POST"}, mode : {"navigate", "no-cors"}]

NoRequest == [url |-> "", method |-> "", mode |-> ""]

\* Responses: src tells the response of the network from a stored one and
\* from the one the handler constructs.
NoResponse == [src |-> "none", url |-> "", status |-> 0, type |-> ""]

Offline == [src |-> "constructed", url |-> "", status |-> 503, type |-> "default"]

NetworkResponse(u, st, ty) == [src |-> "network", url |-> u, status |-> st, type |-> ty]

\* What a stored response reads back as.
Stored(resp) == [resp EXCEPT !.src = "cache"]

\* After install and activate: cache.addAll(CORE_ASSETS) has stored the core
\* assets, no request is being answered.
Installed == [u \in CORE_ASSETS |-> Stored(NetworkResponse(u, 200, "basic"))]

WorkerIdle ==
  /\ cache = Installed /\ puts = {}
  /\ req = NoRequest /\ phase = "idle" /\ responded = NoResponse
  /\ net = "none" /\ putCalled = FALSE

\* caches.match(r): the stored response of a GET request's url, if any; a
\* request of another method matches nothing.
cached(r) == r.method = "GET" /\ r.url \in DOMAIN cache

\* Mutant: the status is not tested.
cacheableAnyStatus(r, resp) ==
  r.method = "GET" /\ (resp.type = "basic" \/ resp.type = "cors")

\* The condition under which the network response is put into the cache.
cacheable(r, resp) ==
  r.method = "GET" /\ resp.status = 200
    /\ (resp.type = "basic" \/ resp.type = "cors")

\* A fetch event: respondWith(caches.match(req).then(...)).
FetchEvent ==
  /\ phase \in {"idle", "done"}
  /\ \E r \in Requests : req' = r
  /\ phase' = "match" /\ responded' = NoResponse
  /\ net' = "none" /\ putCalled' = FALSE
  /\ UNCHANGED <<cache, puts>>
  /\ UNCHANGED gameVars

\* caches.match(req) resolves: the cached response is returned, or fetch(req)
\* is called.
MatchResolves ==
  /\ phase = "match"
  /\ IF cached(req)
     THEN responded' = cache[req.url] /\ phase' = "done"
     ELSE responded' = responded /\ phase' = "fetch"
  /\ UNCHANGED <<cache, puts, req, net, putCalled>>
  /\ UNCHANGED gameVars

\* fetch(req) resolves with a response: it is returned, after a clone of it is
\* handed to cache.put when cacheable; the put is not awaited.
NetworkResolves ==
  /\ phase = "fetch"
  /\ \E st \in {200, 404}, ty \in {"basic", "cors", "opaque"} :
       LET resp == NetworkResponse(req.url, st, ty) IN
       /\ responded' = resp
       /\ IF cacheable(req, resp)
          THEN puts' = puts \cup {resp} /\ putCalled' = TRUE
          ELSE puts' = puts /\ putCalled' = putCalled
  /\ net' = "resolved" /\ phase' = "done"
  /\ UNCHANGED <<cache, req>>
  /\ UNCHANGED gameVars

\* fetch(req) rejects: a navigation waits for caches.match('./index.html'),
\* any other request gets the constructed 503 response.
NetworkRejects ==
  /\ phase = "fetch"
  /\ net' = "rejected"
  /\ IF req.mode = "navigate"
     THEN responded' = responded /\ phase' = "fallback"
     ELSE responded' = Offline /\ phase' = "done"
  /\ UNCHANGED <<cache, puts, req, putCalled>>
  /\ UNCHANGED gameVars

\* caches.match('./index.html') resolves, with undefined when nothing is stored.
FallbackResolves ==
  /\ phase = "fallback"
  /\ responded' = IF RootDocument \in DOMAIN cache THEN cache[RootDocument]
                  ELSE [NoResponse EXCEPT !.src = "undefined"]
  /\ phase' = "done"
  /\ UNCHANGED <<cache, puts, req, net, putCalled>>
  /\ UNCHANGED gameVars

\* A cache.put completes, at any later time.
PutCompletes ==
  /\ \E resp \in puts :
       /\ cache' = [u \in DOMAIN cache \cup {resp.url} |->
                      IF u = resp.url THEN Stored(resp) ELSE cache[u]]
       /\ puts' = puts \ {resp}
  /\ UNCHANGED <<req, phase, responded, net, putCalled>>
  /\ UNCHANGED gameVars

\* A cache.put fails (its rejection is handled nowhere).
PutFails ==
  /\ \E resp \in puts : puts' = puts \ {resp}
  /\ UNCHANGED <<cache, req, phase, responded, net, putCalled>>
  /\ UNCHANGED gameVars

WorkerNext ==
  \/ FetchEvent
  \/ MatchResolves
  \/ NetworkResolves
  \/ NetworkRejects
  \/ FallbackResolves
  \/ PutCompletes
  \/ PutFails

\* ------------------------------------------------------------ errors, store
\* An error leaves the running script or handler uncaught.
raise(s) == [s EXCEPT !.uncaught = TRUE]

\* localStorage with none of the keys set.  A stored LS.CUSTOM text is
\* absent, not JSON ("corrupt") or the JSON of an object with w, h, m (p).
\* The stored LS.BEST text is absent, the JSON of an object ("object", parsed in
\* best), not JSON ("corrupt") or the JSON text null ("null").
NoStore ==
  [diff |-> "absent",
   custom |-> [kind |-> "absent", p |-> <<0, 0, 0>>],
   best |-> "absent"]

\* holdTimer = null.  A pending timeout keeps the cell object its callback
\* closes over: a cell of the current board (stale = FALSE, the cell is
\* board[cell]) or a cell object of a board that setupGrid has since replaced
\* (stale = TRUE, with that object's own revealed and flagged fields).
NoHold ==
  [pending |-> FALSE, cell |-> <<0, 0>>, stale |-> FALSE,
   revealed |-> FALSE, flagged |-> FALSE]

\* ------------------------------------------------------------ placeMines
\* Mutant: only the first cell is excluded, its neighbours are not.
ExcludeCellOnly(c, sf, w, h) == IF sf THEN {c} ELSE {}

\* The exclude set: the first cell and its neighbours, when safeFirst is checked.
Exclude(c, sf, w, h) ==
  IF sf THEN {c} \cup Range(neighbors(c, w, h)) ELSE {}

\* spots: every position that is not excluded.
Spots(c, sf, w, h) == Cells(w, h) \ Exclude(c, sf, w, h)

\* Mutant: the loop runs while i <= mines.
TakenOneMore(n, m) == Min(m + 1, n)

\* Iterations of "for (i=0; i<mines && i<spots.length; i++)".
Taken(n, m) == Min(m, n)

\* shuffle(spots), as far as the loop after it reads the array: the entries
\* a[0..Taken-1].  The Fisher-Yates shuffle permutes the array, so these are
\* distinct spots, and every choice and order of them can come out.
ShufflePrefixes(spots, m) ==
  { a \in [1..Taken(Cardinality(spots), m) -> spots] :
      \A i, j \in DOMAIN a : i # j => a[i] # a[j] }

\* neighbors(x,y).reduce((acc,n) => acc + (n.mine?1:0), 0).
RECURSIVE mineSum(_, _)
mineSum(b, ns) ==
  IF ns = << >> THEN 0
  ELSE (IF b[Head(ns)].mine THEN 1 ELSE 0) + mineSum(b, Tail(ns))

countOf(b, c, w, h) == mineSum(b, neighbors(c, w, h))

\* placeMines once the array is shuffled: a holds the entries the loop reads.
placeMines(b, a, w, h) ==
  LET b1 == [c \in DOMAIN b |->
               IF \E i \in DOMAIN a : a[i] = c
               THEN [b[c] EXCEPT !.mine = TRUE] ELSE b[c]]
  IN [c \in DOMAIN b |->
        IF b1[c].mine THEN b1[c]
        ELSE [b1[c] EXCEPT !.count = countOf(b1, c, w, h)]]

\* ------------------------------------------------------------ endGame
\* Mutant: flagged mines are left hidden.
revealAllMinesUnflagged(b) ==
  [c \in DOMAIN b |->
     IF b[c].mine /\ ~b[c].flagged THEN [b[c] EXCEPT !.revealed = TRUE] ELSE b[c]]

revealAllMines(b) ==
  [c \in DOMAIN b |-> IF b[c].mine THEN [b[c] EXCEPT !.revealed = TRUE] ELSE b[c]]

bestKey(s) == <<s.cols, s.rows, s.mines>>

\* "!prev || elapsed < prev": prev is undefined (no entry) or 0, or elapsed is less.
saveBestIfNeeded(all, k, e) ==
  IF k \notin DOMAIN all \/ all[k] = 0 \/ e < all[k]
  THEN [x \in DOMAIN all \cup {k} |-> IF x = k THEN e ELSE all[x]]
  ELSE all

\* Mutant: timerId is set to null without clearInterval.
clearTimerKeep(s) == [s EXCEPT !.timerId = FALSE]

\* clearInterval(timerId); timerId = null.  clearInterval(null) clears nothing.
clearTimer(s) ==
  [s EXCEPT !.intervals = IF s.timerId THEN @ - 1 ELSE @, !.timerId = FALSE]

\* loadBest(): the stored object; {} when the key is absent ('{}' is parsed)
\* and when JSON.parse throws.
loadBest(s) == IF s.store.best = "object" THEN s.best ELSE << >>

\* JSON.parse('null') does not throw: loadBest() returns null, and the
\* property read that follows it (all[k], loadBest()[bestKey()]) throws.
loadBestNull(s) == s.store.best = "null"

endGame(s, win) ==
  LET s1 == [clearTimer(s) EXCEPT !.ended = TRUE,
                      !.outcome = IF win THEN "won" ELSE "lost",
                      !.endCalls = @ + 1]
  IN IF win
     THEN IF loadBestNull(s1) THEN raise(s1)
          ELSE [s1 EXCEPT !.best = saveBestIfNeeded(loadBest(s1), bestKey(s1),
                                                    s1.elapsed),
                          !.store.best = "object"]
     ELSE [s1 EXCEPT !.board = revealAllMines(s1.board)]

\* Mutant: the comparison is strict.
winReachedStrict(s) == s.revealedCount > s.cols * s.rows - s.mines /\ ~s.ended

\* checkWin's condition.
winReached(s) == s.revealedCount >= s.cols * s.rows - s.mines /\ ~s.ended

checkWin(s) == IF winReached(s) THEN endGame(s, TRUE) ELSE s

\* ------------------------------------------------------------ reveal
\* Mutant: the flood loop without its "n.flagged" test.
floodSkipsUnflagged(cell) == cell.revealed \/ cell.mine

\* Mutant: the flood loop without its "n.revealed" test.
floodSkipsHidden(cell) == cell.flagged \/ cell.mine

\* The two "continue" tests of the flood loop.
floodSkips(cell) == cell.revealed \/ cell.flagged \/ cell.mine

\* The neighbour loop of one dequeued cell: ns is what is left of neighbors(cur).
RECURSIVE floodNeighbors(_, _, _, _, _)
floodNeighbors(b, q, seen, rc, ns) ==
  IF ns = << >> THEN [board |-> b, q |-> q, seen |-> seen, rc |-> rc]
  ELSE LET n == Head(ns) IN
       IF floodSkips(b[n]) THEN floodNeighbors(b, q, seen, rc, Tail(ns))
       ELSE LET push == b[n].count = 0 /\ n \notin seen
            IN floodNeighbors([b EXCEPT ![n].revealed = TRUE],
                              IF push THEN Append(q, n) ELSE q,
                              IF push THEN seen \cup {n} ELSE seen,
                              rc + 1, Tail(ns))

\* Mutant: a zero neighbour is queued unmarked and marked only when it is
\* taken from the queue.
RECURSIVE floodNeighborsLate(_, _, _, _)
floodNeighborsLate(b, q, rc, ns) ==
  IF ns = << >> THEN [board |-> b, q |-> q, rc |-> rc]
  ELSE LET n == Head(ns) IN
       IF floodSkips(b[n]) THEN floodNeighborsLate(b, q, rc, Tail(ns))
       ELSE IF b[n].count = 0
            THEN floodNeighborsLate(b, Append(q, n), rc, Tail(ns))
            ELSE floodNeighborsLate([b EXCEPT ![n].revealed = TRUE], q, rc + 1,
                                    Tail(ns))

RECURSIVE floodLate(_, _, _, _, _, _, _)
floodLate(b, q, seen, rc, ex, w, h) ==
  IF q = << >> THEN [board |-> b, rc |-> rc, expanded |-> ex]
  ELSE LET cur == Head(q)
           b1 == [b EXCEPT ![cur].revealed = TRUE]
           rc1 == IF b[cur].revealed THEN rc ELSE rc + 1
           r == floodNeighborsLate(b1, Tail(q), rc1, neighbors(cur, w, h))
       IN floodLate(r.board, r.q, seen, r.rc, Append(ex, cur), w, h)

\* while (q.length) { cur = q.shift(); ... }; ex lists the cells taken from
\* the queue so far, in order.
RECURSIVE flood(_, _, _, _, _, _, _)
flood(b, q, seen, rc, ex, w, h) ==
  IF q = << >> THEN [board |-> b, rc |-> rc, expanded |-> ex]
  ELSE LET r == floodNeighbors(b, Tail(q), seen, rc, neighbors(Head(q), w, h))
       IN flood(r.board, r.q, r.seen, r.rc, Append(ex, Head(q)), w, h)

\* startTimer: registers an interval unless one is registered.
startTimer(s) ==
  IF s.timerId THEN s ELSE [s EXCEPT !.timerId = TRUE, !.intervals = @ + 1]

\* Mutant: the block forgets "started = true".
firstRevealUnmarked(s, a) ==
  startTimer([s EXCEPT !.board = placeMines(s.board, a, s.cols, s.rows),
                       !.placeCalls = @ + 1])

\* The "if (!started)" block of reveal.
firstReveal(s, a) ==
  startTimer([s EXCEPT !.board = placeMines(s.board, a, s.cols, s.rows),
                       !.placeCalls = @ + 1,
                       !.started = TRUE])

\* The no-op guard of reveal.
revealIgnored(s, c) == s.ended \/ s.board[c].revealed \/ s.board[c].flagged

\* reveal(c): a is the shuffled array's prefix should placeMines run, sz is
\* $('#showZeros').checked as this call reads it.
reveal(s, c, a, sz) ==
  IF revealIgnored(s, c) THEN s
  ELSE LET s1 == IF ~s.started THEN firstReveal(s, a) ELSE s
           s2 == [s1 EXCEPT !.board[c].revealed = TRUE, !.revealedCount = @ + 1]
       IN IF s2.board[c].mine THEN endGame(s2, FALSE)
          ELSE IF s2.board[c].count = 0 /\ sz
               THEN LET r == flood(s2.board, <<c>>, {c}, s2.revealedCount, << >>,
                                   s2.cols, s2.rows)
                    IN checkWin([s2 EXCEPT !.board = r.board,
                                           !.revealedCount = r.rc])
               ELSE checkWin(s2)

\* ------------------------------------------------------------ toggleFlag
\* Mutant: the cap test is missing.
mayFlagAlways(s, c) == TRUE

\* "flags < mines || c.flagged" in the branch where c is not flagged.
mayFlag(s, c) == s.flags < s.mines \/ s.board[c].flagged

\* Mutant: the guard forgets "ended".
toggleIgnoredLive(s, c) == s.board[c].revealed

toggleIgnored(s, c) == s.ended \/ s.board[c].revealed

\* Mutant: the unflag branch forgets "flags--".
unflagKeepCount(s, c) == [s EXCEPT !.board[c].flagged = FALSE]

\* c.flagged = false; flags--
unflag(s, c) == [s EXCEPT !.board[c].flagged = FALSE, !.flags = @ - 1]

\* c.flagged = true; flags++
flag(s, c) == [s EXCEPT !.board[c].flagged = TRUE, !.flags = @ + 1]

toggleFlag(s, c) ==
  IF toggleIgnored(s, c) THEN s
  ELSE IF s.board[c].flagged THEN unflag(s, c)
       ELSE IF mayFlag(s, c) THEN flag(s, c)
            ELSE s

\* ------------------------------------------------------------ chord
\* Mutant: the guard forgets "!c.revealed".
chordIgnoredHidden(s, c) == s.board[c].mine \/ s.ended

chordIgnored(s, c) == ~s.board[c].revealed \/ s.board[c].mine \/ s.ended

flaggedNeighbors(s, c) ==
  Cardinality({ i \in 1..Len(neighbors(c, s.cols, s.rows)) :
                  s.board[neighbors(c, s.cols, s.rows)[i]].flagged })

\* for (const n of ns) { if (!n.revealed && !n.flagged) { reveal(n); if (ended) return; } }
RECURSIVE chordLoop(_, _, _, _)
chordLoop(s, ns, a, sz) ==
  IF ns = << >> THEN s
  ELSE LET n == Head(ns) IN
       IF ~s.board[n].revealed /\ ~s.board[n].flagged
       THEN LET s1 == reveal(s, n, a, sz)
            IN IF s1.ended THEN s1 ELSE chordLoop(s1, Tail(ns), a, sz)
       ELSE chordLoop(s, Tail(ns), a, sz)

chord(s, c, a, sz) ==
  IF chordIgnored(s, c) THEN s
  ELSE IF flaggedNeighbors(s, c) = s.board[c].count
       THEN chordLoop(s, neighbors(c, s.cols, s.rows), a, sz)
       ELSE s

\* ------------------------------------------------------------ newGame
\* updateBestText: reads loadBest()[bestKey()].
updateBestText(s) == IF loadBestNull(s) THEN raise(s) ELSE s

\* setupGrid replaces every cell object: a pending long-press callback keeps
\* the object it closed over, which is no cell of the new board.
detached(s) ==
  IF s.holdTimer.pending /\ ~s.holdTimer.stale
  THEN [s.holdTimer EXCEPT !.stale = TRUE,
                           !.revealed = s.board[s.holdTimer.cell].revealed,
                           !.flagged = s.board[s.holdTimer.cell].flagged]
  ELSE s.holdTimer

newGame(s, p) ==
  updateBestText(
    [clearTimer(s) EXCEPT
            !.ended = FALSE, !.started = FALSE, !.elapsed = 0, !.flags = 0,
            !.revealedCount = 0,
            !.cols = p[1], !.rows = p[2], !.mines = p[3],
            !.board = setupGrid(p[1], p[2]),
            !.holdTimer = detached(s),
            !.outcome = "none", !.placeCalls = 0, !.endCalls = 0])

\* ------------------------------------------------------------ difficulty, reset
Max(a, b) == IF a > b THEN a ELSE b

\* Mutant: the lower limit is not applied.
clampUpper(v, lo, hi) == Min(hi, v)

\* clamp(v, lo, hi) = Math.max(lo, Math.min(hi, v)).
clamp(v, lo, hi) == Max(lo, Min(hi, v))

\* parseInt(value || d, 10) for a field that is empty (<< >>) or holds the
\* digits of an integer n (<<n>>); "0" is a non-empty string, so it parses.
fieldInt(v, d) == IF v = << >> THEN d ELSE v[1]

\* The preset table of getDesiredParams.
Presets ==
  [beginner |-> <<9, 9, 10>>, intermediate |-> <<16, 16, 40>>,
   expert |-> <<30, 16, 99>>]

\* The custom branch of getDesiredParams: w, h, m from the three fields.
customParams(f) ==
  LET w == clamp(fieldInt(f[1], 9), 4, 60)
      h == clamp(fieldInt(f[2], 9), 4, 40)
      maxM == Max(1, w * h - 1)
      m == clamp(fieldInt(f[3], 10), 1, maxM)
  IN <<w, h, m>>

\* getDesiredParams knows the difficulty value: 'custom' or a key of the table.
\* For any other value the table lookup is undefined and p.w throws.
knownDifficulty(di) == di = "custom" \/ di \in DOMAIN Presets

getDesiredParams(s) ==
  IF s.difficulty = "custom" THEN customParams(s.fields)
  ELSE Presets[s.difficulty]

\* reset(): getDesiredParams (which stores the custom parameters), newGame,
\* then the difficulty is stored.  An error in either call ends the handler.
reset(s) ==
  IF ~knownDifficulty(s.difficulty) THEN raise(s)
  ELSE LET p == getDesiredParams(s)
           s0 == IF s.difficulty = "custom"
                 THEN [s EXCEPT !.store.custom = [kind |-> "object", p |-> p]]
                 ELSE s
           s1 == newGame(s0, p)
       IN IF loadBestNull(s1) THEN s1
          ELSE [s1 EXCEPT !.store.diff = s1.difficulty]

\* initDifficulty: the stored difficulty, 'beginner' when there is none, goes
\* to the difficulty control; for 'custom' the stored parameters are parsed
\* and go to the three fields.  JSON.parse is not in a try block here.
initDifficulty(s) ==
  LET savedDiff == IF s.store.diff = "absent" THEN "beginner" ELSE s.store.diff
      s1 == [s EXCEPT !.difficulty = savedDiff]
      c == IF s.store.custom.kind = "absent" THEN <<9, 9, 10>>
           ELSE s.store.custom.p
  IN IF savedDiff # "custom" THEN s1
     ELSE IF s.store.custom.kind = "corrupt" THEN raise(s1)
          ELSE [s1 EXCEPT !.fields = << <<c[1]>>, <<c[2]>>, <<c[3]>> >>]

\* ------------------------------------------------------------ actions
\* The two option checkboxes ($('#safeFirst').checked, $('#showZeros').checked)
\* are inputs of the handler that reads them: the player may change either
\* between any two handlers, so a read can find TRUE or FALSE.

\* The script's last statement is reset(): the first board is a new game.  No
\* best time is stored yet.  The difficulty controls are not followed in this
\* specification (NewGame draws the parameters of Params itself), and a press
\* and its release are one step: no long-press timeout is pending.
Init ==
  \E p \in Params :
    /\ cols = p[1] /\ rows = p[2] /\ mines = p[3]
    /\ board = setupGrid(p[1], p[2])
    /\ started = FALSE /\ ended = FALSE
    /\ flags = 0 /\ revealedCount = 0
    /\ timerId = FALSE /\ intervals = 0 /\ elapsed = 0
    /\ best = << >>
    /\ store = NoStore /\ difficulty = "beginner"
    /\ fields = << << >>, << >>, << >> >>
    /\ pc = "events" /\ uncaught = FALSE
    /\ holdTimer = NoHold
    /\ outcome = "none" /\ placeCalls = 0 /\ endCalls = 0
    /\ WorkerIdle

\* What shuffle can leave in placeMines(c) when $('#safeFirst').checked reads sf.
ShufflesOf(s, c, sf) ==
  ShufflePrefixes(Spots(c, sf, s.cols, s.rows), s.mines)

\* The shuffles of a reveal(c) in the current state; the empty array stands for
\* "no shuffle" when the call does not reach placeMines.
Shuffles(c) ==
  IF started \/ revealIgnored(Session, c) THEN { << >> }
  ELSE ShufflesOf(Session, c, TRUE) \cup ShufflesOf(Session, c, FALSE)

\* pointerup / Space / Enter on cell c.
Reveal ==
  \E c \in Cells(cols, rows), sz \in BOOLEAN :
    \E a \in Shuffles(c) : Becomes(reveal(Session, c, a, sz))

\* right button / long press / F on cell c.
ToggleFlag ==
  \E c \in Cells(cols, rows) : Becomes(toggleFlag(Session, c))

\* dblclick / C on cell c.  chord acts only on a revealed cell, and a cell is
\* revealed only after the first reveal placed the mines (RevealedOnlyStarted),
\* so no shuffle happens inside chord.
Chord ==
  \E c \in Cells(cols, rows), sz \in BOOLEAN : Becomes(chord(Session, c, << >>, sz))

\* reset() with the parameters the difficulty controls give.
NewGame ==
  \E p \in Params : Becomes(newGame(Session, p))

\* The callback of a registered interval; the clock is cut off at MaxElapsed.
Tick ==
  /\ intervals > 0
  /\ elapsed < MaxElapsed
  /\ Becomes([Session EXCEPT !.elapsed = @ + 1])

Next ==
  \/ Reveal
  \/ ToggleFlag
  \/ Chord
  \/ NewGame
  \/ Tick

Spec == Init /\ [][Next]_vars

\* ------------------------------------------------------------ startup, reset
\* The ambient state is s.
Starts(s) ==
  /\ cols = s.cols /\ rows = s.rows /\ mines = s.mines
  /\ board = s.board
  /\ started = s.started /\ ended = s.ended
  /\ flags = s.flags /\ revealedCount = s.revealedCount
  /\ timerId = s.timerId /\ intervals = s.intervals /\ elapsed = s.elapsed
  /\ best = s.best /\ store = s.store /\ difficulty = s.difficulty
  /\ fields = s.fields /\ pc = s.pc /\ uncaught = s.uncaught
  /\ holdTimer = s.holdTimer
  /\ outcome = s.outcome /\ placeCalls = s.placeCalls /\ endCalls = s.endCalls
  /\ WorkerIdle

\* The declarations' values when the script reaches initDifficulty, with the
\* persisted store st; a stored best-time object is the empty one.
Loaded(st) ==
  [cols |-> 9, rows |-> 9, mines |-> 10, board |-> << >>,
   started |-> FALSE, ended |-> FALSE, flags |-> 0, revealedCount |-> 0,
   timerId |-> FALSE, intervals |-> 0, elapsed |-> 0,
   best |-> << >>, store |-> st, difficulty |-> "beginner",
   fields |-> << << >>, << >>, << >> >>,
   pc |-> "initDifficulty", uncaught |-> FALSE, holdTimer |-> NoHold,
   outcome |-> "none", placeCalls |-> 0, endCalls |-> 0]

\* The options of the difficulty control.
Difficulties == {"beginner", "intermediate", "expert", "custom"}

\* Contents of the persisted store: each key absent, well-formed (custom
\* parameters inside and outside the ranges) or malformed.
StoredDiffs == {"absent", "bogus"} \cup Difficulties

StoredCustoms ==
  { [kind |-> "absent", p |-> <<0, 0, 0>>],
    [kind |-> "corrupt", p |-> <<0, 0, 0>>],
    [kind |-> "object", p |-> <<9, 9, 10>>],
    [kind |-> "object", p |-> <<4, 4, 15>>],
    [kind |-> "object", p |-> <<100, 0, 5000>>] }

StoredBests == {"absent", "object", "corrupt", "null"}

Stores == [diff : StoredDiffs, custom : StoredCustoms, best : StoredBests]

\* What the player types into the fields after startup: nothing or a number.
TypedFields == { << >>, <<5>> }

\* The script's tail: the initDifficulty call.  An error aborts the script,
\* after which only the event handlers registered before it run.
InitDifficulty ==
  /\ pc = "initDifficulty"
  /\ LET s1 == initDifficulty(Session)
     IN Becomes([s1 EXCEPT !.pc = IF s1.uncaught THEN "events" ELSE "reset"])

\* The script's last statement: reset().
StartReset ==
  /\ pc = "reset"
  /\ Becomes([reset(Session) EXCEPT !.pc = "events"])

\* The player picks a difficulty and edits the custom fields.
Input ==
  /\ pc = "events"
  /\ \E d \in Difficulties, w \in TypedFields, h \in TypedFields, m \in TypedFields :
       Becomes([Session EXCEPT !.difficulty = d, !.fields = <<w, h, m>>])

\* New Game button, reset button, R key.
ResetClick ==
  /\ pc = "events"
  /\ Becomes(reset(Session))

StartupInit == \E st \in Stores : Starts(Loaded(st))

StartupNext == InitDifficulty \/ StartReset \/ Input \/ ResetClick

\* Startup from every content of the persisted store, then resets.
StartupSpec == StartupInit /\ [][StartupNext]_vars

\* Custom inputs for reset: empty fields and numbers below, at, inside and
\* above the ranges.
WidthInputs == { << >>, <<-1>>, <<0>>, <<3>>, <<4>>, <<9>>, <<60>>, <<61>> }
HeightInputs == { << >>, <<-1>>, <<3>>, <<4>>, <<9>>, <<40>>, <<41>> }
MineInputs ==
  { << >>, <<-1>>, <<0>>, <<1>>, <<10>>, <<15>>, <<16>>, <<99>>, <<2399>>, <<2400>> }

\* The program after a startup with nothing stored, the difficulty control
\* and the fields then set by the player.
ResetInit ==
  \E d \in Difficulties, w \in WidthInputs, h \in HeightInputs, m \in MineInputs :
    /\ d # "custom" => (w = << >> /\ h = << >> /\ m = << >>)
    /\ Starts([reset(initDifficulty(Loaded(NoStore))) EXCEPT
                 !.pc = "events", !.difficulty = d, !.fields = <<w, h, m>>])

\* reset() applied to every preset and custom input.
ResetSpec == ResetInit /\ [][ResetClick]_vars

\* ------------------------------------------------------------ pointer
\* clearHold: clearTimeout(holdTimer); holdTimer = null.
clearHold(s) == [s EXCEPT !.holdTimer = NoHold]

\* onPointerDown on cell c with a button other than the right one: the
\* long-press timeout is set, its callback closing over the cell object c.
onPointerDown(s, c) ==
  [clearHold(s) EXCEPT !.holdTimer = [NoHold EXCEPT !.pending = TRUE, !.cell = c]]

\* onPointerUp on cell c: a pending timeout is cleared and c is revealed.
onPointerUp(s, c, a, sz) ==
  IF s.holdTimer.pending THEN reveal(clearHold(s), c, a, sz) ELSE s

\* toggleFlag(c) for a cell object c that is no cell of the board any more:
\* the same tests and counter updates, on the object's own fields.
toggleDetached(s) ==
  LET h == s.holdTimer IN
  IF s.ended \/ h.revealed THEN s
  ELSE IF h.flagged
       THEN [s EXCEPT !.holdTimer.flagged = FALSE, !.flags = @ - 1]
       ELSE IF s.flags < s.mines \/ h.flagged
            THEN [s EXCEPT !.holdTimer.flagged = TRUE, !.flags = @ + 1]
            ELSE s

\* The timeout callback: toggleFlag(c); holdTimer = null.
holdFires(s) ==
  clearHold(IF s.holdTimer.stale THEN toggleDetached(s)
            ELSE toggleFlag(s, s.holdTimer.cell))

\* pointerdown on a cell, left button or touch (the right button is ToggleFlag).
PointerDown ==
  \E c \in Cells(cols, rows) : Becomes(onPointerDown(Session, c))

\* pointerup on a cell.
PointerUp ==
  \E c \in Cells(cols, rows), sz \in BOOLEAN :
    \E a \in Shuffles(c) : Becomes(onPointerUp(Session, c, a, sz))

\* pointerup off the cells, pointercancel, pointerleave.
ClearHold == Becomes(clearHold(Session))

\* 350 ms after the pointerdown, unless cleared.
HoldFires ==
  /\ holdTimer.pending
  /\ Becomes(holdFires(Session))

\* reset() with the difficulty controls as they were at the last reset.
ResetSame == Becomes(newGame(Session, <<cols, rows, mines>>))

\* The game with a press and its release as separate events, on the small
\* board; Reveal, ToggleFlag and Chord are the keyboard actions (and the right
\* button and the double click).
PointerInit == Init /\ <<cols, rows, mines>> = <<2, 2, 1>>

PointerNext ==
  \/ PointerDown
  \/ PointerUp
  \/ ClearHold
  \/ HoldFires
  \/ ResetSame
  \/ Reveal
  \/ ToggleFlag
  \/ Chord
  \/ Tick

PointerSpec == PointerInit /\ [][PointerNext]_vars

\* ------------------------------------------------------------ worker
\* The installed service worker answering fetch events; the page's script has
\* not run.
WorkerInit == Starts(Loaded(NoStore))

WorkerSpec == WorkerInit /\ [][WorkerNext]_vars

\* ------------------------------------------------------------ model checks
\* A cell is revealed only in a started session (so chord never shuffles).
RevealedOnlyStarted ==
  (\E c \in Cells(cols, rows) : board[c].revealed) => started

TypeOK ==
  /\ <<cols, rows, mines>> \in Params
  /\ DOMAIN board = Cells(cols, rows)
  /\ \A c \in Cells(cols, rows) :
        /\ board[c].mine \in BOOLEAN /\ board[c].revealed \in BOOLEAN
        /\ board[c].flagged \in BOOLEAN /\ board[c].count \in 0..8
  /\ started \in BOOLEAN /\ ended \in BOOLEAN /\ timerId \in BOOLEAN
  /\ flags \in Int /\ revealedCount \in Nat /\ elapsed \in 0..MaxElapsed
  /\ intervals \in Nat
  /\ DOMAIN best \subseteq Params
  /\ \A k \in DOMAIN best : best[k] \in 0..MaxElapsed
  /\ outcome \in {"none", "won", "lost"}
  /\ placeCalls \in Nat /\ endCalls \in Nat

\* ------------------------------------------------------------ claims
\* The cells of a board that are mines.
MineCells(b) == { c \in DOMAIN b : b[c].mine }

\* Brute force: d is one of the (up to 8) cells around c.
Around(c, d) ==
  /\ c # d
  /\ c[1] - d[1] \in {-1, 0, 1}
  /\ c[2] - d[2] \in {-1, 0, 1}

\* C1: reveal(c) on an unrevealed, unflagged, non-mine cell c of count 0, with
\* flood-fill enabled, reveals no mine, and every cell flagged before the call
\* stays flagged and unrevealed.  Stated of every call in every reachable state
\* (on a fresh board, for every shuffle the call's placeMines can draw).
C1_FloodSparesMinesAndFlags ==
  \A c \in Cells(cols, rows) : \A a \in Shuffles(c) :
    LET r == reveal(Session, c, a, TRUE) IN
    (~revealIgnored(Session, c) /\ ~r.board[c].mine /\ r.board[c].count = 0)
      => \A d \in Cells(cols, rows) :
           /\ (r.board[d].revealed /\ ~board[d].revealed) => ~r.board[d].mine
           /\ board[d].flagged => (r.board[d].flagged /\ ~r.board[d].revealed)

\* C1 witness: a started session where revealing a zero cell floods on through
\* a second zero cell, around a flagged safe cell that stays hidden, with the
\* mines left hidden.
C1_Witness ==
  /\ started /\ ~ended
  /\ \E c \in Cells(cols, rows), f \in Cells(cols, rows) :
       LET r == reveal(Session, c, << >>, TRUE) IN
       /\ ~revealIgnored(Session, c) /\ ~board[c].mine /\ board[c].count = 0
       /\ r.revealedCount >= revealedCount + 2
       /\ \E z \in Cells(cols, rows) \ {c} :
            r.board[z].revealed /\ ~board[z].revealed /\ board[z].count = 0
       /\ board[f].flagged /\ ~board[f].mine /\ Around(c, f)
       /\ r.board[f].flagged /\ ~r.board[f].revealed
       /\ MineCells(board) # {}
       /\ \A m \in MineCells(board) : ~r.board[m].revealed

\* The cells placeMines may use when safeFirst reads sf, counted on the board.
EligibleCount(c, sf) ==
  cols * rows
    - (IF sf THEN 1 + Cardinality({ d \in Cells(cols, rows) : Around(c, d) }) ELSE 0)

\* C2: with safeFirst enabled, the first reveal that passes the no-op guards
\* leaves no mine on its cell c nor on any in-bounds neighbour of c, and does
\* not end the session in a loss; on every board, for every cell and shuffle.
C2_SafeFirstClick ==
  ~started =>
    \A c \in Cells(cols, rows), sz \in BOOLEAN :
      \A a \in ShufflesOf(Session, c, TRUE) :
        LET r == reveal(Session, c, a, sz) IN
        ~revealIgnored(Session, c) =>
          /\ r.started /\ r.placeCalls = 1 /\ r.board[c].revealed
          /\ ~r.board[c].mine
          /\ \A d \in Cells(cols, rows) : Around(c, d) => ~r.board[d].mine
          /\ r.outcome # "lost"

\* C2 witness: a later session (a best time is stored) not yet started, where a
\* safe first reveal places every mine and the session goes on.
C2_Witness ==
  /\ ~started /\ DOMAIN best # {}
  /\ \E c \in Cells(cols, rows) : \E a \in ShufflesOf(Session, c, TRUE) :
       LET r == reveal(Session, c, a, TRUE) IN
       /\ ~revealIgnored(Session, c)
       /\ Cardinality(MineCells(r.board)) = mines
       /\ r.started /\ ~r.ended /\ r.board[c].revealed

\* The state part and the step part of C3.
C3_State ==
  /\ ~started => MineCells(board) = {}
  /\ placeCalls = (IF started THEN 1 ELSE 0)

C3_Step ==
  /\ (started /\ started') =>
       (MineCells(board') = MineCells(board) /\ placeCalls' = placeCalls)
  /\ (~started /\ started') =>
       /\ ~ended /\ placeCalls' = placeCalls + 1
       /\ <<cols', rows', mines'>> = <<cols, rows, mines>>
       /\ \E c \in Cells(cols, rows) :
            ~board[c].revealed /\ ~board[c].flagged /\ board'[c].revealed
  /\ (placeCalls' # placeCalls /\ started') => ~started

\* C3: no cell is a mine before the session starts; placeMines has run exactly
\* once in a started session and not at all before; it runs in a step that
\* reveals a cell that was neither revealed nor flagged, in a session not ended;
\* and once started, the mine set changes in no step of the session.
C3_MinesPlacedOnce == [](C3_State) /\ [][C3_Step]_vars

\* C3 witness: a started session with its mines placed, after more reveals, a
\* flag and a timer tick.
C3_Witness ==
  /\ started /\ ~ended /\ placeCalls = 1
  /\ MineCells(board) # {}
  /\ revealedCount >= 2 /\ flags >= 1 /\ elapsed >= 1

\* C4: after the first reveal's placeMines, the number of mines on the board is
\* min(mineCount, eligibleCount), safeFirst on or off, for every first cell.
C4_MineCount ==
  ~started =>
    \A c \in Cells(cols, rows), sf \in BOOLEAN, sz \in BOOLEAN :
      \A a \in ShufflesOf(Session, c, sf) :
        LET r == reveal(Session, c, a, sz) IN
        ~revealIgnored(Session, c) =>
          Cardinality(MineCells(r.board)) = Min(mines, EligibleCount(c, sf))

\* C4 witness: a later session's fresh board, a flag already on it, with a first
\* cell that leaves fewer eligible cells than mineCount (all of them become
\* mines) and one that leaves enough.
C4_Witness ==
  /\ ~started /\ flags >= 1 /\ DOMAIN best # {}
  /\ \E c \in Cells(cols, rows) : \E a \in ShufflesOf(Session, c, TRUE) :
       /\ ~revealIgnored(Session, c)
       /\ EligibleCount(c, TRUE) < mines
       /\ Cardinality(MineCells(reveal(Session, c, a, TRUE).board))
            = EligibleCount(c, TRUE)
  /\ \E c \in Cells(cols, rows) : \E a \in ShufflesOf(Session, c, TRUE) :
       /\ ~revealIgnored(Session, c)
       /\ EligibleCount(c, TRUE) >= mines
       /\ Cardinality(MineCells(reveal(Session, c, a, TRUE).board)) = mines

\* C5: in every state, the count of every non-mine cell is the number of mines
\* among the cells around it, recomputed by brute force over the board.
C5_Counts ==
  \A c \in Cells(cols, rows) :
    ~board[c].mine =>
      board[c].count
        = Cardinality({ d \in Cells(cols, rows) : Around(c, d) /\ board[d].mine })

\* C5 witness: a started session, some reveals in, with a safe cell of count 2
\* and a safe cell of count 0.
C5_Witness ==
  /\ started /\ revealedCount >= 2
  /\ \E c \in Cells(cols, rows) : ~board[c].mine /\ board[c].count = 2
  /\ \E c \in Cells(cols, rows) : ~board[c].mine /\ board[c].count = 0

\* The step of C6.
C6_Step ==
  (/\ ~ended
   /\ revealedCount' > revealedCount
   /\ \A c \in Cells(cols, rows) :
        (board'[c].revealed /\ ~board[c].revealed) => ~board'[c].mine
   /\ revealedCount' >= cols * rows - mines)
  => /\ ended' /\ outcome' = "won" /\ endCalls' = 1
     /\ ~timerId' /\ elapsed' = elapsed
     /\ <<cols, rows, mines>> \in DOMAIN best'
     /\ \/ best'[<<cols, rows, mines>>] = elapsed
        \/ /\ <<cols, rows, mines>> \in DOMAIN best
           /\ best'[<<cols, rows, mines>>] = best[<<cols, rows, mines>>]
     /\ \A c \in Cells(cols, rows) : board'[c].mine => ~board'[c].revealed

\* C6: a step that reveals cells, none of them a mine, in a session not ended,
\* and leaves revealedCount >= width*height - mineCount, ends the session as a
\* win: ended, endGame called once with win, the timer stopped, the best-time
\* record of the configuration written or kept, and no mine marked revealed.
C6_WinEnds == [][C6_Step]_vars

\* C6 witness: a session won after a tick, mines on the board and all hidden,
\* exactly the safe cells counted, its time stored.
C6_Witness ==
  /\ ended /\ outcome = "won" /\ ~timerId
  /\ Cardinality(MineCells(board)) = mines
  /\ \A c \in MineCells(board) : ~board[c].revealed
  /\ revealedCount = cols * rows - mines
  /\ elapsed >= 1
  /\ <<cols, rows, mines>> \in DOMAIN best

\* C7: revealing a mine ends the session as a loss: ended, timer stopped, every
\* mine revealed, no other cell revealed by the call, revealedCount one more
\* (the clicked mine only).  endGame runs at most once per session, so a
\* session is lost or won, never both: a revealed mine means lost, a won
\* session has no mine revealed.
C7_LossEnds ==
  /\ endCalls <= 1
  /\ ended <=> endCalls = 1
  /\ ended <=> outcome # "none"
  /\ (\E c \in MineCells(board) : board[c].revealed) => outcome = "lost"
  /\ outcome = "lost" =>
       /\ ~timerId
       /\ MineCells(board) # {}
       /\ \A c \in MineCells(board) : board[c].revealed
  /\ \A c \in Cells(cols, rows), sz \in BOOLEAN : \A a \in Shuffles(c) :
       LET r == reveal(Session, c, a, sz) IN
       (~revealIgnored(Session, c) /\ r.board[c].mine) =>
         /\ r.ended /\ r.outcome = "lost" /\ r.endCalls = 1
         /\ ~r.timerId /\ r.elapsed = elapsed /\ r.best = best
         /\ r.revealedCount = revealedCount + 1
         /\ \A d \in Cells(cols, rows) :
              /\ r.board[d].revealed <=> (board[d].revealed \/ r.board[d].mine)
              /\ r.board[d].flagged = board[d].flagged

\* C7 witness: a session lost after a tick and other reveals, with a flagged
\* mine now revealed and a safe cell still hidden.
C7_Witness ==
  /\ outcome = "lost" /\ elapsed >= 1 /\ revealedCount >= 2
  /\ Cardinality(MineCells(board)) = 2
  /\ \E c \in MineCells(board) : board[c].flagged /\ board[c].revealed
  /\ \E c \in Cells(cols, rows) : ~board[c].mine /\ ~board[c].revealed

\* A new game: what newGame leaves.
FreshGame ==
  /\ ~ended /\ ~started /\ flags = 0 /\ revealedCount = 0 /\ elapsed = 0
  /\ ~timerId /\ outcome = "none"
  /\ board = setupGrid(cols, rows)

\* The state part and the step part of C8.
C8_State ==
  ended =>
    \A c \in Cells(cols, rows), sz \in BOOLEAN :
      /\ reveal(Session, c, << >>, sz) = Session
      /\ toggleFlag(Session, c) = Session
      /\ chord(Session, c, << >>, sz) = Session

C8_Step == ended => FreshGame'

\* C8: once the session has ended, reveal, toggleFlag and chord on any cell
\* change nothing, and the only step that changes the state is a new game.
C8_TerminalAbsorbing == [](C8_State) /\ [][C8_Step]_vars

\* C8 witness: an ended session with a hidden unflagged cell, a flagged hidden
\* cell, a revealed numbered cell and flags left to place: cells on which
\* reveal, toggleFlag and chord would act in a live session.
C8_Witness ==
  /\ ended /\ flags < mines
  /\ \E c \in Cells(cols, rows) : ~board[c].revealed /\ ~board[c].flagged
  /\ \E c \in Cells(cols, rows) : ~board[c].revealed /\ board[c].flagged
  /\ \E c \in Cells(cols, rows) : board[c].revealed /\ ~board[c].mine

\* C9: flags <= mineCount in every state.  toggleFlag on an unflagged,
\* unrevealed cell with the flag count at mineCount leaves the count and the
\* cell as they are; toggleFlag on a flagged cell unflags it whatever the flag
\* count, wherever toggleFlag acts at all (session not ended, cell not
\* revealed), and is the no-op of its guard elsewhere.
C9_FlagCap ==
  /\ flags <= mines
  /\ \A c \in Cells(cols, rows) :
       LET r == toggleFlag(Session, c) IN
       /\ (~board[c].flagged /\ ~board[c].revealed /\ flags = mines) =>
            (r.flags = flags /\ ~r.board[c].flagged /\ r = Session)
       /\ board[c].flagged =>
            IF ended \/ board[c].revealed THEN r = Session
            ELSE ~r.board[c].flagged /\ r.flags = flags - 1

\* C9 witness: a live session after a reset to the other configuration, with the
\* flag count at the cap, a flagged cell and a hidden unflagged one.
C9_Witness ==
  /\ ~ended /\ flags = mines /\ DOMAIN best # {}
  /\ <<cols, rows, mines>> \notin DOMAIN best
  /\ \E c \in Cells(cols, rows) : board[c].flagged
  /\ \E c \in Cells(cols, rows) : ~board[c].flagged /\ ~board[c].revealed

\* C10: in a session not ended, toggleFlag twice on an unrevealed cell, flagged
\* or not, flag count below or at the cap, gives back the state it started from.
C10_ToggleTwice ==
  ~ended =>
    \A c \in Cells(cols, rows) :
      ~board[c].revealed => toggleFlag(toggleFlag(Session, c), c) = Session

\* C10 witness: a started session at the cap, where the first toggle of a
\* flagged cell acts and the first toggle of an unflagged hidden cell does not.
C10_Witness ==
  /\ started /\ ~ended /\ flags = mines
  /\ \E c \in Cells(cols, rows) :
       board[c].flagged /\ toggleFlag(Session, c) # Session
  /\ \E c \in Cells(cols, rows) :
       ~board[c].flagged /\ ~board[c].revealed /\ toggleFlag(Session, c) = Session

\* The neighbour is covered: revealed or flagged.
Covered(b, n) == b[n].revealed \/ b[n].flagged

\* C11: chord(c) where it acts (c revealed, not a mine, session not ended) with
\* as many flagged neighbours as c.count reveals the hidden unflagged
\* neighbours in neighbour order and stops when the session ends: no flag
\* changes, no revealed cell is hidden again, afterwards the session has ended
\* or every neighbour is revealed or flagged, and a loss comes from the first
\* hidden unflagged mine among the neighbours with every neighbour before it
\* covered and, flood-fill off, every hidden safe neighbour after it left
\* hidden.  With another number of flagged neighbours, on an unrevealed cell, a
\* mine cell or in an ended session, chord changes nothing.
C11_Chord ==
  \A c \in Cells(cols, rows), sz \in BOOLEAN :
    LET r == chord(Session, c, << >>, sz)
        ns == neighbors(c, cols, rows)
        nFlagged == Cardinality({ n \in Range(ns) : board[n].flagged })
    IN IF ~board[c].revealed \/ board[c].mine \/ ended \/ nFlagged # board[c].count
       THEN r = Session
       ELSE /\ r.ended \/ \A n \in Range(ns) : Covered(r.board, n)
            /\ \A d \in Cells(cols, rows) :
                 /\ r.board[d].flagged = board[d].flagged
                 /\ board[d].revealed => r.board[d].revealed
            /\ r.outcome = "lost" =>
                 \E i \in 1..Len(ns) :
                   /\ board[ns[i]].mine /\ ~Covered(board, ns[i])
                   /\ \A j \in 1..(i - 1) :
                        /\ Covered(r.board, ns[j])
                        /\ ~(board[ns[j]].mine /\ ~Covered(board, ns[j]))
                   /\ ~sz => \A j \in (i + 1)..Len(ns) :
                        (~board[ns[j]].mine /\ ~board[ns[j]].revealed)
                          => ~r.board[ns[j]].revealed

\* C11 witness: a live session with a revealed numbered cell whose flagged
\* neighbours match its count, where chord reveals a hidden neighbour and the
\* session goes on, and another revealed numbered cell whose flagged
\* neighbours do not match.
C11_Witness ==
  /\ started /\ ~ended
  /\ \E c \in Cells(cols, rows) :
       LET r == chord(Session, c, << >>, FALSE) IN
       /\ board[c].revealed /\ ~board[c].mine /\ board[c].count >= 1
       /\ flaggedNeighbors(Session, c) = board[c].count
       /\ r.revealedCount > revealedCount /\ ~r.ended
  /\ \E c \in Cells(cols, rows) :
       /\ board[c].revealed /\ ~board[c].mine
       /\ flaggedNeighbors(Session, c) # board[c].count
       /\ \E n \in Range(neighbors(c, cols, rows)) : ~Covered(board, n)

\* The update rule and the step part of C12.
C12_Rule ==
  \A k \in Params, e \in 0..MaxElapsed :
    LET r == saveBestIfNeeded(best, k, e) IN
    /\ DOMAIN r = DOMAIN best \cup {k}
    /\ r[k] = IF k \notin DOMAIN best THEN e
              ELSE IF e < best[k] THEN e ELSE best[k]
    /\ \A x \in DOMAIN best \ {k} : r[x] = best[x]

C12_Step ==
  \A k \in DOMAIN best : k \in DOMAIN best' /\ best'[k] <= best[k]

\* C12: a win with elapsed time e for key k stores e when k has no record,
\* stores e over a record r when e < r and keeps r otherwise, for every e >= 0
\* and r >= 0, and leaves the other keys' records alone; so along every run a
\* key's stored best time never increases.
C12_BestRecord == [](C12_Rule) /\ [][C12_Step]_vars

\* The state part and the step part of C13.
C13_State ==
  /\ timerId <=> (started /\ ~ended)
  /\ intervals = IF timerId THEN 1 ELSE 0
  /\ ~started => (elapsed = 0 /\ ~ENABLED Tick)
  /\ ended => ~ENABLED Tick

C13_Step ==
  /\ elapsed' # elapsed =>
       \/ elapsed' = elapsed + 1 /\ started /\ ~ended /\ started' /\ ~ended'
       \/ FreshGame'
  /\ ended => \/ elapsed' = elapsed /\ ~timerId' /\ intervals' = 0
              \/ FreshGame'

\* C13: the timer runs exactly while the session is started and not ended.
\* Before the first successful reveal elapsed is 0 and no tick can occur; a
\* tick adds one to elapsed and happens only in a started, not ended session;
\* at most one interval is registered at any time; once the session has ended
\* elapsed does not change and no interval is registered until a new game.
C13_TimerRuns == [](C13_State) /\ [][C13_Step]_vars

\* C13 witness: a session that was started, ticked up to the clock's bound and
\* then ended, with its interval cleared.
C13_Witness ==
  /\ ended /\ started /\ elapsed = MaxElapsed /\ elapsed >= 1
  /\ ~timerId /\ intervals = 0

\* C14: for every preset and every custom input, empty or a number inside or
\* outside the ranges, reset leaves 4 <= cols <= 60, 4 <= rows <= 40 and
\* 1 <= mines <= cols*rows - 1 on a board of cols*rows cells, the presets
\* being 9x9/10, 16x16/40 and 30x16/99; so mines < cols*rows in every state.
C14_ParamsInRange ==
  LET r == reset(Session) IN
  /\ mines < cols * rows
  /\ 4 <= r.cols /\ r.cols <= 60
  /\ 4 <= r.rows /\ r.rows <= 40
  /\ 1 <= r.mines /\ r.mines <= r.cols * r.rows - 1
  /\ Cardinality(DOMAIN r.board) = r.cols * r.rows
  /\ ~r.uncaught
  /\ difficulty = "beginner" => <<r.cols, r.rows, r.mines>> = <<9, 9, 10>>
  /\ difficulty = "intermediate" => <<r.cols, r.rows, r.mines>> = <<16, 16, 40>>
  /\ difficulty = "expert" => <<r.cols, r.rows, r.mines>> = <<30, 16, 99>>

\* C14 witness: reset has run on custom inputs above the width range, below
\* the height range and above the largest mine count, and clamped all three.
C14_Witness ==
  /\ difficulty = "custom"
  /\ fields = << <<61>>, <<3>>, <<2400>> >>
  /\ store.diff = "custom" /\ store.custom.kind = "object"
  /\ cols = 60 /\ rows = 4 /\ mines = 239

\* A playable new game: a fresh board of cols*rows cells in a session that is
\* neither started nor ended.
Playable ==
  /\ DOMAIN board = Cells(cols, rows) /\ cols >= 4 /\ rows >= 4
  /\ ~started /\ ~ended /\ flags = 0 /\ revealedCount = 0
  /\ \A c \in Cells(cols, rows) : board[c] = newCell

\* C15: for every content of the persisted store (each key absent, well-formed
\* or malformed), startup and every later read of it raise no uncaught error,
\* and once the script has run the program is at a playable new game.
C15_StoreRecovers ==
  /\ ~uncaught
  /\ pc = "events" => Playable

\* The state part and the step part of C16.
C16_State ==
  phase = "done" =>
    /\ net = "none" =>
         /\ responded.src = "cache" /\ responded.url = req.url
         /\ req.method = "GET" /\ ~putCalled
    /\ net = "resolved" =>
         /\ responded.src = "network" /\ responded.url = req.url
         /\ putCalled <=> /\ req.method = "GET" /\ responded.status = 200
                          /\ responded.type \in {"basic", "cors"}
    /\ net = "rejected" =>
         /\ ~putCalled
         /\ IF req.mode = "navigate"
            THEN responded.src = "cache" /\ responded.url = "./index.html"
            ELSE /\ responded.src = "constructed" /\ responded.status = 503
                 /\ responded = Offline

C16_Step ==
  /\ (phase = "match" /\ phase' # "match") =>
       IF req.method = "GET" /\ req.url \in DOMAIN cache
       THEN phase' = "done" /\ responded' = cache[req.url] /\ net' = "none"
       ELSE phase' = "fetch"
  /\ (phase' = phase /\ req' = req) => responded' = responded
  /\ putCalled' # putCalled => (phase = "fetch" \/ phase' = "match")

\* C16: the fetch handler answers a request with the cached response and no
\* network fetch when one is cached; otherwise with the network response,
\* which it puts into the cache exactly for a GET request answered 200 with
\* type basic or cors; when the network fetch fails, a navigation gets the
\* cached root document and any other request the constructed 503 Offline
\* response.  A cache write that completes late or fails changes no response.
C16_FetchOrder == [](C16_State) /\ [][C16_Step]_vars

\* C16 witness: a GET request answered by the network with a cacheable
\* response whose cache write has failed: the response stands, nothing is
\* stored for the url.
C16_Witness ==
  /\ phase = "done" /\ net = "resolved" /\ putCalled
  /\ responded.src = "network" /\ responded.status = 200
  /\ responded \notin puts /\ req.url \notin DOMAIN cache

\* The flood expansion reveal(c) runs in session s once c is revealed.
floodOf(s, c) ==
  flood([s.board EXCEPT ![c].revealed = TRUE], <<c>>, {c}, s.revealedCount + 1,
        << >>, s.cols, s.rows)

\* q has no entry twice.
NoRepeat(q) == \A i, j \in 1..Len(q) : i # j => q[i] # q[j]

\* The session in which reveal(c) floods: the current one, with the mines
\* placed from shuffle a if this is the first reveal.
Placed(c, a) == IF started THEN Session ELSE firstReveal(Session, a)

\* C17: for every board, mine layout, flag layout and start cell, the flood
\* expansion of reveal comes to an end within the call, takes every cell from
\* its queue at most once, starting with the start cell, and so expands at
\* most cols*rows cells, each of them a safe cell of count 0; the board and the
\* count it ends with are those reveal leaves.
C17_FloodBounded ==
  \A c \in Cells(cols, rows) : \A a \in Shuffles(c) :
    LET s == Placed(c, a)
        r == floodOf(s, c)
        after == reveal(Session, c, a, TRUE)
    IN (~revealIgnored(Session, c) /\ ~s.board[c].mine /\ s.board[c].count = 0)
         => /\ NoRepeat(r.expanded)
            /\ Len(r.expanded) <= cols * rows
            /\ Len(r.expanded) >= 1 /\ r.expanded[1] = c
            /\ \A i \in 1..Len(r.expanded) :
                 LET d == r.expanded[i] IN
                 ~s.board[d].mine /\ s.board[d].count = 0 /\ r.board[d].revealed
            /\ after.revealedCount = r.rc
            /\ \A d \in Cells(cols, rows) :
                 after.board[d].revealed = r.board[d].revealed

\* C17 witness: a board with a flag placed where a reveal floods through
\* three or more cells of count 0.
C17_Witness ==
  /\ ~ended /\ flags >= 1
  /\ \E c \in Cells(cols, rows) : \E a \in Shuffles(c) :
       /\ ~revealIgnored(Session, c)
       /\ ~Placed(c, a).board[c].mine /\ Placed(c, a).board[c].count = 0
       /\ Len(floodOf(Placed(c, a), c).expanded) >= 3

\* The cells of the current board with flagged = true.
FlaggedCells == { c \in Cells(cols, rows) : board[c].flagged }

\* C18: in every reachable state, under every interleaving of the pointer
\* events, the long-press timeout callback, the keyboard actions and reset, the
\* flags counter is the number of flagged cells of the current board; so it is
\* never negative, and it is 0 on a board on which no cell is flagged.
C18_FlagsCounted ==
  /\ flags = Cardinality(FlaggedCells)
  /\ flags >= 0

\* The revealed cells of the current board that are not mines, and those that are.
RevealedSafe == { c \in Cells(cols, rows) : board[c].revealed /\ ~board[c].mine }

RevealedMines == { c \in Cells(cols, rows) : board[c].revealed /\ board[c].mine }

\* C19: in every reachable state revealedCount is the number of revealed
\* non-mine cells of the current board, plus one if the session ended in a loss
\* (the clicked mine; the mines revealAllMines shows are not counted), whether
\* the cells were revealed one by one, by flood-fill or by chord.
C19_RevealedCounted ==
  /\ revealedCount =
       Cardinality(RevealedSafe) + (IF ended /\ RevealedMines # {} THEN 1 ELSE 0)
  /\ (ended /\ RevealedMines # {}) <=> outcome = "lost"
  /\ ~ended => RevealedMines = {}

\* C19 witness: a lost session with cells revealed before the loss, two mines
\* shown and one of them counted.
C19_Witness ==
  /\ ended /\ outcome = "lost"
  /\ Cardinality(RevealedMines) = 2
  /\ Cardinality(RevealedSafe) >= 2
  /\ revealedCount = Cardinality(RevealedSafe) + 1

\* C20: whenever the session has ended as a win, every cell of the board that
\* is not a mine is revealed, with safeFirst read on or off at the first
\* reveal, also where the exclusion leaves fewer cells than mines to place.
C20_WinRevealsAll ==
  outcome = "won" => \A c \in Cells(cols, rows) : ~board[c].mine => board[c].revealed

====
